---------------------------- MODULE Spec2Model ----------------------------
(***************************************************************************)
(* Model of the chassis kinematics core: Velocity, its integration into an *)
(* Odometry increment (lib.rs to_odometry, odometry.rs From<Velocity>),    *)
(* the composition of Odometry values (+=, +) and the TrajectoryPredictor  *)
(* iterator (predict.rs).                                                  *)
(*                                                                         *)
(* NUMBERS.  An f32 of the program is modelled by a Num: an exact value    *)
(*      (a*(2/pi) + b + c*(pi/2))  +  delta*(a'*(2/pi) + b' + c'*(pi/2))   *)
(* with integer coefficients, written [m |-> <<a,b,c>>, e |-> <<a',b',c'>>]*)
(* delta is a positive quantity so small that every modelled multiple of   *)
(* it is below f32::EPSILON and its square is lost in rounding (for such   *)
(* x, f32 computes sin x = x and cos x = 1).  Angles are multiples of pi/2 *)
(* or such a small value, for which sin and cos are exact.  Every result   *)
(* is rounded as f32 rounds it (Norm): an integer value to a 24 bit        *)
(* significand, ties to even; a multiple of delta added to a nonzero value *)
(* is absorbed.  Values carrying pi are otherwise combined exactly.        *)
(***************************************************************************)
EXTENDS Integers, Sequences, FiniteSets, TLC

\* ------------------------------------------------------------------ bounds
MaxRadius == 1
MaxSecs == 2
MaxScale == 2
FoldSpeed == 1
FoldSteps == 2
MaxLoopRadius == 4
MaxStates == 2
MaxGain == 2
MaxScript == 3

\* ----------------------------------------------------------------- numbers
\* Width of the f32 significand (the fields of Velocity and Odometry are f32).
F32Precision == 24

Pow2(n) == 2 ^ n

AbsInt(n) == IF n < 0 THEN -n ELSE n

RECURSIVE Ulp(_)
\* Spacing of the f32 values at magnitude n (n an integer).
Ulp(n) == IF AbsInt(n) < Pow2(F32Precision) THEN 1 ELSE 2 * Ulp(AbsInt(n) \div 2)

\* The f32 nearest to the integer n, ties to the even significand.
F32Round(n) ==
  LET mag == AbsInt(n)
      u == Ulp(mag)
      lo == (mag \div u) * u
      rem == mag - lo
      up == IF 2 * rem > u THEN TRUE
            ELSE IF 2 * rem < u THEN FALSE
            ELSE ((lo \div u) % 2) = 1
      r == IF rem = 0 THEN mag ELSE IF up THEN lo + u ELSE lo
  IN IF n < 0 THEN -r ELSE r

Z3 == <<0, 0, 0>>

V3Add(x, y) == <<x[1] + y[1], x[2] + y[2], x[3] + y[3]>>

V3Scale(k, x) == <<k * x[1], k * x[2], k * x[3]>>

\* The f32 with the integer value n.
NumOf(n) == [m |-> <<0, n, 0>>, e |-> Z3]

\* The f32 nearest to k * pi/2.
HalfPi(k) == [m |-> <<0, 0, k>>, e |-> Z3]

\* The f32 k * delta, a value of magnitude below f32::EPSILON.
Tiny(k) == [m |-> Z3, e |-> <<0, k, 0>>]

Zero == NumOf(0)

One == NumOf(1)

IsInt(x) == x.m[1] = 0 /\ x.m[3] = 0 /\ x.e = Z3

\* A value with no factor of pi in it: b + b'*delta.
IsScalar(x) == x.m[1] = 0 /\ x.m[3] = 0 /\ x.e[1] = 0 /\ x.e[3] = 0

\* f32 rounding of a result: a part below EPSILON is absorbed by a nonzero
\* value, and an integer value keeps 24 significant bits.
Norm(x) ==
  IF x.m = Z3 THEN x
  ELSE IF x.m[1] = 0 /\ x.m[3] = 0 /\ AbsInt(x.m[2]) >= Pow2(F32Precision)
       THEN NumOf(F32Round(x.m[2]))
       ELSE [m |-> x.m, e |-> Z3]

\* Sign of a*(2/pi) + b + c*(pi/2), with pi/2 taken as 355/226.
Sign3(t) ==
  LET s == t[1] * 226 * 226 + t[2] * 355 * 226 + t[3] * 355 * 355
      one(n) == IF n < 0 THEN -1 ELSE IF n > 0 THEN 1 ELSE 0
  IN IF t[1] = 0 /\ t[3] = 0 THEN one(t[2])
     ELSE IF t[1] = 0 /\ t[2] = 0 THEN one(t[3])
     ELSE IF t[2] = 0 /\ t[3] = 0 THEN one(t[1])
     ELSE one(s)

NumSign(x) == IF x.m # Z3 THEN Sign3(x.m) ELSE Sign3(x.e)

NumNeg(x) == [m |-> V3Scale(-1, x.m), e |-> V3Scale(-1, x.e)]

\* f32::abs
NumAbs(x) == IF NumSign(x) < 0 THEN NumNeg(x) ELSE x

\* f32 addition
NumAdd(x, y) == Norm([m |-> V3Add(x.m, y.m), e |-> V3Add(x.e, y.e)])

\* f32 subtraction
NumSub(x, y) == NumAdd(x, NumNeg(y))

\* c * y for a scalar c; the delta^2 term is lost.
ScalarMul(c, y) ==
  Norm([m |-> V3Scale(c.m[2], y.m),
        e |-> V3Add(V3Scale(c.m[2], y.e), V3Scale(c.e[2], y.m))])

\* f32 multiplication; one factor is a scalar in every product of the program.
NumMul(x, y) == IF IsScalar(x) THEN ScalarMul(x, y) ELSE ScalarMul(y, x)

\* f32 division s / theta for theta = c * pi/2, c # 0.
NumDiv(s, theta) ==
  LET c == theta.m[3]
  IN Norm([m |-> <<s.m[2] \div c, s.m[3] \div c, 0>>,
           e |-> <<s.e[2] \div c, s.e[3] \div c, 0>>])

\* x < y on f32 (a comparison does not round)
NumLess(x, y) == NumSign([m |-> V3Add(x.m, V3Scale(-1, y.m)), e |-> V3Add(x.e, V3Scale(-1, y.e))]) < 0

\* x <= y on f32
NumLeq(x, y) == ~NumLess(y, x)

\* a < f32::EPSILON for a >= 0: the values below EPSILON are the multiples of delta.
BelowEpsilon(a) == a.m = Z3

\* cos and sin of k * pi/2.
Cos4(k) == CASE k % 4 = 0 -> 1 [] k % 4 = 1 -> 0 [] k % 4 = 2 -> -1 [] OTHER -> 0

Sin4(k) == CASE k % 4 = 0 -> 0 [] k % 4 = 1 -> 1 [] k % 4 = 2 -> 0 [] OTHER -> -1

\* f32::cos of theta = k * pi/2 + t * delta
NumCos(theta) ==
  [m |-> <<0, Cos4(theta.m[3]), 0>>, e |-> <<0, -(theta.e[2] * Sin4(theta.m[3])), 0>>]

\* f32::sin of theta = k * pi/2 + t * delta
NumSin(theta) ==
  [m |-> <<0, Sin4(theta.m[3]), 0>>, e |-> <<0, theta.e[2] * Cos4(theta.m[3]), 0>>]


\* ---------------------------------------------------------------- Velocity
\* f32 value of a u64 count of whole seconds.
as_secs_f32(d) == Norm(NumOf(d))

\* mul_assign with the angular speed left unscaled.
mul_assign_linear_only(self, rhs) == [v |-> NumMul(self.v, rhs), w |-> self.w]

\* Velocity *= f32
mul_assign(self, rhs) == [v |-> NumMul(self.v, rhs), w |-> NumMul(self.w, rhs)]

\* Velocity * f32
MulF32(self, rhs) == mul_assign(self, rhs)

\* Unit::new_unchecked(Complex { re: cos, im: sin }) with the translation (x, y).
isometry(x, y, cos, sin) ==
  [translation |-> [x |-> x, y |-> y], rotation |-> [re |-> cos, im |-> sin]]

\* to_odometry without s.abs(): the s field keeps the sign of v.
to_odometry_signed(self) ==
  LET s == self.v
      theta == self.w
      a == NumAbs(theta)
      sin == NumSin(theta)
      cos == NumCos(theta)
  IN [s |-> s,
      a |-> a,
      pose |-> IF BelowEpsilon(a)
               THEN isometry(s, Zero, cos, sin)
               ELSE LET radius == NumDiv(s, theta)
                    IN isometry(NumMul(radius, sin),
                                NumMul(radius, NumSub(One, cos)), cos, sin)]

\* to_odometry with the arc's y taken as radius * cos instead of radius * (1 - cos).
to_odometry_chord(self) ==
  LET s == self.v
      theta == self.w
      a == NumAbs(theta)
      sin == NumSin(theta)
      cos == NumCos(theta)
  IN [s |-> NumAbs(s),
      a |-> a,
      pose |-> IF BelowEpsilon(a)
               THEN isometry(s, Zero, cos, sin)
               ELSE LET radius == NumDiv(s, theta)
                    IN isometry(NumMul(radius, sin), NumMul(radius, cos), cos, sin)]

\* to_odometry with the straight-line translation taken as |s|.
to_odometry_abs_straight(self) ==
  LET s == self.v
      theta == self.w
      a == NumAbs(theta)
      sin == NumSin(theta)
      cos == NumCos(theta)
  IN [s |-> NumAbs(s),
      a |-> a,
      pose |-> IF BelowEpsilon(a)
               THEN isometry(NumAbs(s), Zero, cos, sin)
               ELSE LET radius == NumDiv(s, theta)
                    IN isometry(NumMul(radius, sin),
                                NumMul(radius, NumSub(One, cos)), cos, sin)]

\* Velocity::to_odometry
to_odometry(self) ==
  LET s == self.v
      theta == self.w
      a == NumAbs(theta)
      sin == NumSin(theta)
      cos == NumCos(theta)
  IN [s |-> NumAbs(s),
      a |-> a,
      pose |-> IF BelowEpsilon(a)
               THEN isometry(s, Zero, cos, sin)
               ELSE LET radius == NumDiv(s, theta)
                    IN isometry(NumMul(radius, sin),
                                NumMul(radius, NumSub(One, cos)), cos, sin)]

\* Velocity * Duration
MulDuration(self, rhs) == to_odometry(MulF32(self, as_secs_f32(rhs)))

\* ---------------------------------------------------------------- Odometry
\* UnitComplex::new(angle)
UnitComplexNew(angle) == [re |-> NumCos(angle), im |-> NumSin(angle)]

\* Isometry2::new(translation, angle)
Isometry2New(vec, angle) == [translation |-> vec, rotation |-> UnitComplexNew(angle)]

\* Vector2 * f32
VecScale(vec, k) == [x |-> NumMul(vec.x, k), y |-> NumMul(vec.y, k)]

\* Odometry::from with the rotation built from a = |theta| instead of theta.
OdometryFromAbsAngle(vel) ==
  LET s == vel.v
      theta == vel.w
      a == NumAbs(theta)
  IN [s |-> NumAbs(s),
      a |-> a,
      pose |-> Isometry2New(
                 IF BelowEpsilon(a)
                 THEN [x |-> s, y |-> Zero]
                 ELSE VecScale([x |-> NumSin(theta), y |-> NumSub(One, NumCos(theta))],
                               NumDiv(s, theta)),
                 a)]

\* Odometry::from(vel)
OdometryFrom(vel) ==
  LET s == vel.v
      theta == vel.w
      a == NumAbs(theta)
  IN [s |-> NumAbs(s),
      a |-> a,
      pose |-> Isometry2New(
                 IF BelowEpsilon(a)
                 THEN [x |-> s, y |-> Zero]
                 ELSE VecScale([x |-> NumSin(theta), y |-> NumSub(One, NumCos(theta))],
                               NumDiv(s, theta)),
                 theta)]

\* UnitComplex * Vector2: the vector rotated.
transform_vector(rot, vec) ==
  [x |-> NumSub(NumMul(rot.re, vec.x), NumMul(rot.im, vec.y)),
   y |-> NumAdd(NumMul(rot.im, vec.x), NumMul(rot.re, vec.y))]

\* UnitComplex * UnitComplex
RotationMul(p, q) ==
  [re |-> NumSub(NumMul(p.re, q.re), NumMul(p.im, q.im)),
   im |-> NumAdd(NumMul(p.re, q.im), NumMul(p.im, q.re))]

\* The poses added component by component: rhs's translation is not rotated.
IsometryPlainSum(self, rhs) ==
  [translation |-> [x |-> NumAdd(self.translation.x, rhs.translation.x),
                    y |-> NumAdd(self.translation.y, rhs.translation.y)],
   rotation |-> RotationMul(self.rotation, rhs.rotation)]

\* The rotation updated before the shift is computed from it.
IsometryMulRotateFirst(self, rhs) ==
  LET rotation == RotationMul(self.rotation, rhs.rotation)
      shift == transform_vector(rotation, rhs.translation)
  IN [translation |-> [x |-> NumAdd(self.translation.x, shift.x),
                       y |-> NumAdd(self.translation.y, shift.y)],
      rotation |-> rotation]

\* Isometry2 *= Isometry2
IsometryMul(self, rhs) ==
  LET shift == transform_vector(self.rotation, rhs.translation)
  IN [translation |-> [x |-> NumAdd(self.translation.x, shift.x),
                       y |-> NumAdd(self.translation.y, shift.y)],
      rotation |-> RotationMul(self.rotation, rhs.rotation)]

\* UnitComplex::angle, in (-pi, pi]: im.atan2(re)
Angle(rot) ==
  LET re == rot.re.m[2]
      im == rot.im.m[2]
      k == CASE re > 0 -> 0 [] im > 0 -> 1 [] re < 0 -> 2 [] OTHER -> -1
  IN Norm([m |-> <<0, 0, k>>, e |-> <<0, re * rot.im.e[2] - im * rot.re.e[2], 0>>])

\* Odometry::ZERO
ZERO == [s |-> Zero, a |-> Zero, pose |-> isometry(Zero, Zero, One, Zero)]

\* Odometry += Odometry
add_assign(self, rhs) ==
  [s |-> NumAdd(self.s, rhs.s),
   a |-> NumAdd(self.a, rhs.a),
   pose |-> IsometryMul(self.pose, rhs.pose)]

\* add that returns self instead of the copy it added to.
add_returns_self(self, rhs) ==
  LET copy == add_assign(self, rhs)
  IN self

\* Odometry + Odometry
add(self, rhs) ==
  LET copy == self
  IN add_assign(copy, rhs)


\* ------------------------------------------------------------------ inputs
\* Turns per second, in quarter turns: right and left quarter and half turns.
Turns == {-2, -1, 1, 2}

\* Rates below f32::EPSILON, in multiples of delta: right, none, left.
TinyTurns == {-1, 0, 1}

\* Arc motions: w = q * pi/2, v = rho * q (so that the radius v/w is rho * 2/pi).
ArcVelocities == {[v |-> NumOf(rho * q), w |-> HalfPi(q)] : rho \in -MaxRadius .. MaxRadius, q \in Turns}

\* Motions with |w| < f32::EPSILON, w = 0 among them.
StraightVelocities == {[v |-> NumOf(n), w |-> Tiny(d)] : n \in -MaxRadius .. MaxRadius, d \in TinyTurns}

Velocities == ArcVelocities \cup StraightVelocities

\* The same motions with v a multiple of pi/2 (the radius v/w is then rho).
PiVelocities ==
  {[v |-> HalfPi(rho * q), w |-> HalfPi(q)] : rho \in -MaxRadius .. MaxRadius, q \in Turns}
    \cup {[v |-> HalfPi(n), w |-> Tiny(d)] : n \in -MaxRadius .. MaxRadius, d \in TinyTurns}

Durations == 0 .. MaxSecs

Scales == 0 .. MaxScale

ZeroVelocity == [v |-> Zero, w |-> Zero]

\* Increments as integration produces them.
OdoSamples == {to_odometry(vel) : vel \in Velocities}

\* Angular speeds of the accumulation runs: a quarter turn per second to the
\* right and to the left, a rate below EPSILON to the right and to the left, none.
FoldTurns == {HalfPi(-1), Tiny(-1), Zero, Tiny(1), HalfPi(1)}

\* The smallest f32 magnitude whose spacing exceeds 1, forward and reverse.
LargeSpeeds == {Pow2(F32Precision), -Pow2(F32Precision)}

FoldVelocities ==
  {[v |-> NumOf(n), w |-> w] : n \in (-FoldSpeed .. FoldSpeed) \cup LargeSpeeds, w \in FoldTurns}

\* Periods of the accumulation runs, in seconds.
FoldDurations == {0, 1}

\* Steps per full circle for which one step turns by a multiple of pi/2.
StepNums == {1, 2, 4}

\* ------------------------------------------------------------- predictors
\* Option: None, Some(x)
None == <<>>

Some(x) == <<x>>

\* Chassis states, as a state predictor hands them out.
States == 1 .. MaxStates

\* Chassis models: the gain from a state to a speed.
Models == {[gain |-> g] : g \in 1 .. MaxGain}

\* ChassisModel::volocity_from: odd states turn left by a quarter turn per
\* second, even states turn right at a rate below EPSILON.
volocity_from(model, state) ==
  [v |-> NumOf(model.gain * state), w |-> IF state % 2 = 1 THEN HalfPi(1) ELSE Tiny(-1)]

\* What a state predictor will return, call by call; after that, None.
Scripts == UNION {[1 .. n -> {None} \cup {Some(st) : st \in States}] : n \in 0 .. MaxScript}

\* A state predictor that has not been called: it counts its calls (calls),
\* the states it returned before its first None (served), and records what it
\* returned last (last) and whether it has returned None (done).
NewPredictor(script) ==
  [script |-> script, calls |-> 0, last |-> None, served |-> 0, done |-> FALSE]

\* StatusPredictor::predict: the value returned (item) and the predictor after the call (self).
predict(self) ==
  LET item == IF self.script = <<>> THEN None ELSE Head(self.script)
  IN [item |-> item,
      self |-> [script |-> IF self.script = <<>> THEN <<>> ELSE Tail(self.script),
                calls |-> self.calls + 1,
                last |-> item,
                served |-> IF item # None /\ ~self.done THEN self.served + 1 ELSE self.served,
                done |-> self.done \/ item = None]]

\* StatusPredictor: Clone, a copy that shares nothing with the original.
PredictorClone(self) == self

\* next that pulls two states and integrates the second.
next_twice(self) ==
  LET skipped == predict(self.predictor)
      r == predict(skipped.self)
  IN [item |-> IF r.item = None THEN None
               ELSE Some(MulDuration(volocity_from(self.model, r.item[1]), self.period)),
      self |-> [self EXCEPT !.predictor = r.self]]

\* next that integrates over one second instead of over the period.
next_unit_period(self) ==
  LET r == predict(self.predictor)
  IN [item |-> IF r.item = None THEN None
               ELSE Some(to_odometry(volocity_from(self.model, r.item[1]))),
      self |-> [self EXCEPT !.predictor = r.self]]

\* TrajectoryPredictor::next: the value returned (item) and the iterator after the call (self).
next(self) ==
  LET r == predict(self.predictor)
  IN [item |-> IF r.item = None THEN None
               ELSE Some(MulDuration(volocity_from(self.model, r.item[1]), self.period)),
      self |-> [self EXCEPT !.predictor = r.self]]

\* #[derive(Clone)] for TrajectoryPredictor
clone(self) ==
  [period |-> self.period, model |-> self.model, predictor |-> PredictorClone(self.predictor)]

NoPredictor == [period |-> 0, model |-> [gain |-> 1], predictor |-> NewPredictor(<<>>)]

VARIABLES od, prev, inc, steps, stepNum, radius, entry,
          mode, A, B, C, V, k, t, pc, given,
          sum, acc, rev, left, right, vs, va, p1, p2, i0, i1, i2,
          tp, cl, out, outCl, tp0, nextCalls, yielded, ended

foldVars == <<od, prev, inc, steps, stepNum, radius, entry>>

operands == <<mode, A, B, C, V, k, t, given>>

results == <<sum, acc, rev, left, right, vs, va, p1, p2, i0, i1, i2>>

algVars == <<operands, pc, results>>

trajVars == <<tp, cl, out, outCl, tp0, nextCalls, yielded, ended>>

vars == <<foldVars, algVars, trajVars>>

\* Nothing accumulated: the state of the accumulator outside its runs.
FoldIdle ==
  /\ od = ZERO
  /\ prev = ZERO
  /\ inc = ZERO
  /\ steps = 0
  /\ stepNum = 0
  /\ radius = 0
  /\ entry = "none"

\* No operands drawn: the state of the operator runs outside them.
AlgIdle ==
  /\ mode = "none"
  /\ A = ZERO /\ B = ZERO /\ C = ZERO
  /\ V = ZeroVelocity /\ k = 0 /\ t = 0
  /\ pc = "idle"
  /\ given = <<ZERO, ZERO, ZeroVelocity>>
  /\ sum = ZERO /\ acc = ZERO /\ rev = ZERO /\ left = ZERO /\ right = ZERO
  /\ vs = ZeroVelocity /\ va = ZeroVelocity
  /\ p1 = ZERO /\ p2 = ZERO /\ i0 = ZERO /\ i1 = ZERO /\ i2 = ZERO

\* No trajectory predictor built.
TrajIdle ==
  /\ tp = NoPredictor /\ tp0 = NoPredictor
  /\ cl = None /\ out = None /\ outCl = None
  /\ nextCalls = 0 /\ yielded = 0 /\ ended = FALSE

\* ------------------------------------------------- accumulating increments
\* let mut od = Odometry::ZERO;
FoldInit == FoldIdle /\ AlgIdle /\ TrajIdle

\* The bookkeeping of one fold: od becomes total after the increment delta.
Folded(total, delta) ==
  /\ steps < FoldSteps
  /\ od' = total
  /\ prev' = od
  /\ inc' = delta
  /\ steps' = steps + 1
  /\ UNCHANGED <<stepNum, radius, entry, algVars, trajVars>>

\* od += vel * period
AccMulDuration ==
  \E vel \in FoldVelocities, secs \in FoldDurations :
    Folded(add_assign(od, MulDuration(vel, secs)), MulDuration(vel, secs))

\* od += vel.to_odometry()
AccToOdometry ==
  \E vel \in FoldVelocities :
    Folded(add_assign(od, to_odometry(vel)), to_odometry(vel))

\* od += Odometry::from(vel)
AccFrom ==
  \E vel \in FoldVelocities :
    Folded(add_assign(od, OdometryFrom(vel)), OdometryFrom(vel))

\* od = od + vel * period
SumStep ==
  \E vel \in FoldVelocities, secs \in FoldDurations :
    Folded(add(od, MulDuration(vel, secs)), MulDuration(vel, secs))

FoldNext == AccMulDuration \/ AccToOdometry \/ AccFrom \/ SumStep

SpecFold == FoldInit /\ [][FoldNext]_vars

\* ------------------------------------------------------- the closed circle
\* delta_vel of odometry_test: one of step_num steps around a circle of the radius.
LoopVelocity(r, n) == [v |-> HalfPi((4 * r) \div n), w |-> HalfPi(4 \div n)]

\* delta_od, by each of the three ways to integrate delta_vel over one period.
LoopIncrement(r, n, how) ==
  CASE how = "from" -> OdometryFrom(LoopVelocity(r, n))
    [] how = "to_odometry" -> to_odometry(LoopVelocity(r, n))
    [] OTHER -> MulDuration(LoopVelocity(r, n), 1)

LoopInit ==
  /\ radius \in 1 .. MaxLoopRadius
  /\ stepNum \in StepNums
  /\ entry \in {"from", "to_odometry", "mul"}
  /\ inc = LoopIncrement(radius, stepNum, entry)
  /\ od = ZERO
  /\ prev = ZERO
  /\ steps = 0
  /\ AlgIdle
  /\ TrajIdle

\* for _ in 0..step_num { od += delta_od; }
LoopStep ==
  /\ steps < stepNum
  /\ od' = add_assign(od, inc)
  /\ prev' = od
  /\ steps' = steps + 1
  /\ UNCHANGED <<inc, stepNum, radius, entry, algVars, trajVars>>

LoopNext == LoopStep

SpecLoop == LoopInit /\ [][LoopNext]_vars

\* ------------------------------------------------ the operators, one by one
\* Operands A, B, C of the composition: let sum = A + B; let mut acc = A; ...
ComposeInit ==
  /\ mode = "compose"
  /\ A \in OdoSamples /\ B \in OdoSamples /\ C = ZERO
  /\ V = ZeroVelocity /\ k = 0 /\ t = 0
  /\ pc = "add"
  /\ given = <<A, B, V>>
  /\ sum = ZERO /\ acc = A /\ rev = ZERO /\ left = ZERO /\ right = ZERO
  /\ vs = ZeroVelocity /\ va = ZeroVelocity
  /\ p1 = ZERO /\ p2 = ZERO /\ i0 = ZERO /\ i1 = ZERO /\ i2 = ZERO
  /\ FoldIdle
  /\ TrajIdle

\* Operands V, k, t of scaling and integration: let vs = V * k; let mut va = V; ...
ScaleInit ==
  /\ mode = "scale"
  /\ A = ZERO /\ B = ZERO /\ C = ZERO
  /\ V \in Velocities \cup PiVelocities /\ k \in Scales /\ t \in Durations
  /\ pc = "mul"
  /\ given = <<A, B, V>>
  /\ sum = ZERO /\ acc = ZERO /\ rev = ZERO /\ left = ZERO /\ right = ZERO
  /\ vs = ZeroVelocity /\ va = V
  /\ p1 = ZERO /\ p2 = ZERO /\ i0 = ZERO /\ i1 = ZERO /\ i2 = ZERO
  /\ FoldIdle
  /\ TrajIdle

AlgInit == ComposeInit \/ ScaleInit

\* let sum = A + B;
DoAdd ==
  /\ pc = "add"
  /\ sum' = add(A, B)
  /\ pc' = "add_assign"
  /\ UNCHANGED <<foldVars, trajVars, operands, acc, rev, left, right, vs, va, p1, p2, i0, i1, i2>>

\* acc += B;   (acc was initialised to A)
DoAddAssign ==
  /\ pc = "add_assign"
  /\ acc' = add_assign(acc, B)
  /\ pc' = "swap"
  /\ UNCHANGED <<foldVars, trajVars, operands, sum, rev, left, right, vs, va, p1, p2, i0, i1, i2>>

\* let rev = B + A;
DoSwapped ==
  /\ pc = "swap"
  /\ rev' = add(B, A)
  /\ pc' = "left"
  /\ UNCHANGED <<foldVars, trajVars, operands, sum, acc, left, right, vs, va, p1, p2, i0, i1, i2>>

\* let left = (A + B) + C;   for a third operand C
DoLeft ==
  /\ pc = "left"
  /\ \E c \in OdoSamples :
       /\ C' = c
       /\ left' = add(add(A, B), c)
  /\ pc' = "right"
  /\ UNCHANGED <<foldVars, trajVars, mode, A, B, V, k, t, given, sum, acc, rev, right, vs, va, p1, p2, i0, i1, i2>>

\* let right = A + (B + C);
DoRight ==
  /\ pc = "right"
  /\ right' = add(A, add(B, C))
  /\ pc' = "done"
  /\ UNCHANGED <<foldVars, trajVars, operands, sum, acc, rev, left, vs, va, p1, p2, i0, i1, i2>>

\* let vs = V * k;
DoMul ==
  /\ pc = "mul"
  /\ vs' = MulF32(V, NumOf(k))
  /\ pc' = "mul_assign"
  /\ UNCHANGED <<foldVars, trajVars, operands, sum, acc, rev, left, right, va, p1, p2, i0, i1, i2>>

\* va *= k;   (va was initialised to V)
DoMulAssign ==
  /\ pc = "mul_assign"
  /\ va' = mul_assign(va, NumOf(k))
  /\ pc' = "scale_then_integrate"
  /\ UNCHANGED <<foldVars, trajVars, operands, sum, acc, rev, left, right, vs, p1, p2, i0, i1, i2>>

\* let p1 = (V * k) * t;
DoScaleThenIntegrate ==
  /\ pc = "scale_then_integrate"
  /\ p1' = MulDuration(MulF32(V, NumOf(k)), t)
  /\ pc' = "integrate_longer"
  /\ UNCHANGED <<foldVars, trajVars, operands, sum, acc, rev, left, right, vs, va, p2, i0, i1, i2>>

\* let p2 = V * (k * t);   the duration t taken k times
DoIntegrateLonger ==
  /\ pc = "integrate_longer"
  /\ p2' = MulDuration(V, k * t)
  /\ pc' = "integrate"
  /\ UNCHANGED <<foldVars, trajVars, operands, sum, acc, rev, left, right, vs, va, p1, i0, i1, i2>>

\* let i0 = V * t;
DoIntegrate ==
  /\ pc = "integrate"
  /\ i0' = MulDuration(V, t)
  /\ pc' = "to_odometry"
  /\ UNCHANGED <<foldVars, trajVars, operands, sum, acc, rev, left, right, vs, va, p1, p2, i1, i2>>

\* let i1 = V.to_odometry();
DoToOdometry ==
  /\ pc = "to_odometry"
  /\ i1' = to_odometry(V)
  /\ pc' = "from"
  /\ UNCHANGED <<foldVars, trajVars, operands, sum, acc, rev, left, right, vs, va, p1, p2, i0, i2>>

\* let i2 = Odometry::from(V);
DoFrom ==
  /\ pc = "from"
  /\ i2' = OdometryFrom(V)
  /\ pc' = "done"
  /\ UNCHANGED <<foldVars, trajVars, operands, sum, acc, rev, left, right, vs, va, p1, p2, i0, i1>>

AlgNext ==
  \/ DoAdd \/ DoAddAssign \/ DoSwapped \/ DoLeft \/ DoRight
  \/ DoMul \/ DoMulAssign \/ DoScaleThenIntegrate \/ DoIntegrateLonger
  \/ DoIntegrate \/ DoToOdometry \/ DoFrom

SpecAlg == AlgInit /\ [][AlgNext]_vars

\* ------------------------------------------------ the trajectory predictor
\* TrajectoryPredictor { period, model, predictor }
TrajInit ==
  /\ tp \in {[period |-> d, model |-> m, predictor |-> NewPredictor(sc)] :
               d \in Durations, m \in Models, sc \in Scripts}
  /\ tp0 = tp
  /\ cl = None /\ out = None /\ outCl = None
  /\ nextCalls = 0 /\ yielded = 0 /\ ended = FALSE
  /\ FoldIdle
  /\ AlgIdle

\* out = tp.next(), by a caller that counts the increments up to the first None.
TrajNextOrig ==
  /\ nextCalls <= MaxScript
  /\ tp' = next(tp).self
  /\ out' = next(tp).item
  /\ nextCalls' = nextCalls + 1
  /\ yielded' = IF next(tp).item # None /\ ~ended THEN yielded + 1 ELSE yielded
  /\ ended' = (ended \/ next(tp).item = None)
  /\ UNCHANGED <<foldVars, algVars, cl, outCl, tp0>>

\* let mut cl = tp.clone();
TrajClone ==
  /\ cl = None
  /\ cl' = Some(clone(tp))
  /\ UNCHANGED <<foldVars, algVars, tp, out, outCl, tp0, nextCalls, yielded, ended>>

\* outCl = cl.next()
TrajNextClone ==
  /\ cl # None
  /\ cl[1].predictor.calls <= MaxScript
  /\ cl' = Some(next(cl[1]).self)
  /\ outCl' = next(cl[1]).item
  /\ UNCHANGED <<foldVars, algVars, tp, out, tp0, nextCalls, yielded, ended>>

TrajNext == TrajNextOrig \/ TrajClone \/ TrajNextClone

SpecTraj == TrajInit /\ [][TrajNext]_vars

\* ------------------------------------------------------------------ claims
\* Equal within tolerance: the two f32 differ by less than f32::EPSILON.
ApproxEq(x, y) == x.m = y.m

PoseApproxEq(p, q) ==
  /\ ApproxEq(p.translation.x, q.translation.x)
  /\ ApproxEq(p.translation.y, q.translation.y)
  /\ ApproxEq(p.rotation.re, q.rotation.re)
  /\ ApproxEq(p.rotation.im, q.rotation.im)

OdoApproxEq(a, b) ==
  /\ ApproxEq(a.s, b.s)
  /\ ApproxEq(a.a, b.a)
  /\ PoseApproxEq(a.pose, b.pose)

\* The steps of a run that have been taken when the run stands at step p.
Past(p) ==
  CASE p = "add" -> {}
    [] p = "add_assign" -> {"add"}
    [] p = "swap" -> {"add", "add_assign"}
    [] p = "left" -> {"add", "add_assign", "swap"}
    [] p = "right" -> {"add", "add_assign", "swap", "left"}
    [] p = "mul" -> {}
    [] p = "mul_assign" -> {"mul"}
    [] p = "scale_then_integrate" -> {"mul", "mul_assign"}
    [] p = "integrate_longer" -> {"mul", "mul_assign", "scale_then_integrate"}
    [] p = "integrate" -> {"mul", "mul_assign", "scale_then_integrate", "integrate_longer"}
    [] p = "to_odometry" -> {"mul", "mul_assign", "scale_then_integrate", "integrate_longer",
                             "integrate"}
    [] p = "from" -> {"mul", "mul_assign", "scale_then_integrate", "integrate_longer",
                      "integrate", "to_odometry"}
    [] p = "done" -> IF mode = "compose"
                     THEN {"add", "add_assign", "swap", "left", "right"}
                     ELSE {"mul", "mul_assign", "scale_then_integrate", "integrate_longer",
                           "integrate", "to_odometry", "from"}
    [] OTHER -> {}

Did(step) == step \in Past(pc)

\* ---- C1
\* The increment is not lost in the rounding of the f32 sum: it is at least the
\* spacing of the f32 values at the running total.
NotAbsorbed(total, delta) ==
  IF delta.m = Z3 THEN total.m = Z3
  ELSE (IsInt(total) /\ IsInt(delta)) => delta.m[2] >= Ulp(total.m[2])

WrapAngle(x) == [m |-> <<0, 0, ((x.m[3] + 1) % 4) - 1>>, e |-> x.e]

\* The vector turned by the angle.
RotateBy(angle, vec) ==
  [x |-> NumSub(NumMul(NumCos(angle), vec.x), NumMul(NumSin(angle), vec.y)),
   y |-> NumAdd(NumMul(NumSin(angle), vec.x), NumMul(NumCos(angle), vec.y))]

\* A's translation plus B's translation turned by A's heading.
ComposedTranslation(a, b) ==
  LET turned == RotateBy(Angle(a.pose.rotation), b.pose.translation)
  IN [x |-> NumAdd(a.pose.translation.x, turned.x),
      y |-> NumAdd(a.pose.translation.y, turned.y)]

\* The two positions added component by component.
PlainSum(a, b) ==
  [x |-> NumAdd(a.pose.translation.x, b.pose.translation.x),
   y |-> NumAdd(a.pose.translation.y, b.pose.translation.y)]

\* s and a add, B's translation is turned by A's heading and added to A's, the headings add.
ComposesInOrder ==
  /\ sum.s = NumAdd(A.s, B.s)
  /\ sum.a = NumAdd(A.a, B.a)
  /\ ApproxEq(sum.pose.translation.x, ComposedTranslation(A, B).x)
  /\ ApproxEq(sum.pose.translation.y, ComposedTranslation(A, B).y)
  /\ ApproxEq(Angle(sum.pose.rotation),
              WrapAngle(NumAdd(Angle(A.pose.rotation), Angle(B.pose.rotation))))

\* C2 as stated: A + B has s = A.s + B.s, a = A.a + B.a and pose = A.pose o B.pose;
\* its position is never the component-wise sum of the two positions and its
\* pose never B.pose o A.pose.
C2_NeverPlainSum ==
  /\ Did("add") => (ComposesInOrder /\ sum.pose.translation # PlainSum(A, B))
  /\ Did("swap") => sum.pose # rev.pose

\* C2 amended: A + B has s = A.s + B.s, a = A.a + B.a and pose = A.pose o B.pose
\* in that order.  Its position is the component-wise sum of the two positions
\* when A's heading is zero, and its pose is B.pose o A.pose when A or B is at
\* the identity pose; otherwise they differ in general.
C2_ComposesInOrder ==
  /\ Did("add") => ComposesInOrder
  /\ (Did("add") /\ A.pose.rotation = ZERO.pose.rotation) =>
       sum.pose.translation = PlainSum(A, B)
  /\ (Did("swap") /\ (A.pose = ZERO.pose \/ B.pose = ZERO.pose)) => sum.pose = rev.pose

\* C2 witness: a sum after a quarter turn, which is neither the component-wise
\* sum nor the composition in the other order.
C2_Witness ==
  /\ Did("swap")
  /\ Angle(A.pose.rotation) = HalfPi(1)
  /\ ~ApproxEq(sum.pose.translation.x, PlainSum(A, B).x)
  /\ ~PoseApproxEq(sum.pose, rev.pose)
  /\ ComposesInOrder

RECURSIVE LeadingStates(_)
\* The number of states a script returns before its first None.
LeadingStates(script) ==
  IF script = <<>> \/ Head(script) = None THEN 0 ELSE 1 + LeadingStates(Tail(script))

RECURSIVE Drop(_, _)
\* The sequence without its first n elements.
Drop(sq, n) == IF n = 0 \/ sq = <<>> THEN sq ELSE Drop(Tail(sq), n - 1)

\* C5: an increment yielded by next is the velocity of the state just pulled,
\* integrated over the period; next leaves period and model as they were; and
\* what the original has left to yield depends on its own calls only, whatever
\* a clone has done.
C5_IndependentIncrements ==
  /\ tp.period = tp0.period
  /\ tp.model = tp0.model
  /\ out # None =>
       out = Some(MulDuration(volocity_from(tp0.model, tp.predictor.last[1]), tp0.period))
  /\ tp.predictor.script = Drop(tp0.predictor.script, nextCalls)
  /\ cl # None => (cl[1].period = tp0.period /\ cl[1].model = tp0.model)
  /\ (cl # None /\ outCl # None) =>
       outCl = Some(MulDuration(volocity_from(tp0.model, cl[1].predictor.last[1]), tp0.period))

\* C5 witness: a clone has run two calls ahead of the original, which has
\* yielded an increment over a period of two seconds and has more to yield.
C5_Witness ==
  /\ cl # None
  /\ cl[1].predictor.calls >= tp.predictor.calls + 2
  /\ nextCalls >= 1
  /\ out # None
  /\ tp.period = 2
  /\ tp.predictor.script # <<>>
  /\ Head(tp.predictor.script) # None

\* ---- C6
\* C6: A + B is the accumulator initialised to A after acc += B, and leaves A
\* and B as given; V * k is V after V *= k.
C6_InPlaceEqualsValue ==
  /\ Did("add_assign") => (sum = acc /\ A = given[1] /\ B = given[2])
  /\ Did("mul_assign") => (vs = va /\ V = given[3])

\* C6 witness: both forms have run on operands with turns, and the sum is neither operand.
C6_Witness ==
  /\ Did("add_assign")
  /\ sum = acc
  /\ ~BelowEpsilon(A.a)
  /\ ~BelowEpsilon(B.a)
  /\ sum # A
  /\ sum # B

\* ---- C7
\* C7: (A + B) + C and A + (B + C) have equal poses and equal s and a, within tolerance.
C7_Associative == Did("right") => OdoApproxEq(left, right)

\* C7 witness: three increments with turns, where A + B and B + A differ in pose.
C7_Witness ==
  /\ Did("right")
  /\ ~PoseApproxEq(sum.pose, rev.pose)
  /\ ~BelowEpsilon(A.a) /\ ~BelowEpsilon(B.a) /\ ~BelowEpsilon(C.a)
  /\ C.s # Zero
  /\ OdoApproxEq(left, right)

\* ---- C8
\* The f32 factor applied by Velocity * Duration.
Theta == NumMul(V.w, as_secs_f32(t))

Displacement == NumMul(V.v, as_secs_f32(t))

\* C8: (V * k) * t equals V * (k t) within tolerance, and V * t is to_odometry of
\* the velocity with both components scaled by t.
C8_ScalingPathsAgree ==
  /\ Did("integrate_longer") => OdoApproxEq(p1, p2)
  /\ Did("integrate") => i0 = to_odometry([v |-> Displacement, w |-> Theta])

\* C8 witness: an arc, scaled by 2 and integrated over 2 seconds.
C8_Witness ==
  /\ Did("integrate")
  /\ k = 2
  /\ t = 2
  /\ ~BelowEpsilon(NumAbs(V.w))
  /\ V.v # Zero
  /\ p1 # i0
  /\ OdoApproxEq(p1, p2)

\* ---- C9
\* What the straight-line branch yields besides the rotation.
StraightLineRest ==
  /\ i0.pose.translation = [x |-> Displacement, y |-> Zero]
  /\ i0.s = NumAbs(Displacement)
  /\ i0.a = NumAbs(Theta)
  /\ V.w = Zero => (i0.a = Zero /\ i0.pose.rotation = ZERO.pose.rotation)
  /\ (t = 0 \/ V = ZeroVelocity) => i0 = ZERO

\* C9 as stated: for |theta| < epsilon the increment's pose is the translation
\* (v t, 0) with zero rotation, s is |v t|, and for w = 0, t = 0 or V = 0 the
\* rotation, a, or the whole increment is zero.
C9_StraightLineZeroRotation ==
  (Did("integrate") /\ BelowEpsilon(NumAbs(Theta))) =>
    (StraightLineRest /\ i0.pose.rotation = ZERO.pose.rotation)

\* C9 amended: for |theta| < epsilon the increment's pose is the translation
\* (v t, 0), sign of v t retained, with the rotation by theta itself (cos theta,
\* sin theta), which is zero only for theta = 0; s is |v t|, a is |theta|; for
\* w = 0 the rotation and a are zero, for t = 0 or V = 0 the increment is ZERO.
C9_StraightLineKeepsTheta ==
  (Did("integrate") /\ BelowEpsilon(NumAbs(Theta))) =>
    /\ StraightLineRest
    /\ Angle(i0.pose.rotation) = Theta
    /\ (i0.pose.rotation = ZERO.pose.rotation) <=> (Theta = Zero)

\* C9 witness: a reverse motion with a nonzero turn below epsilon.
C9_Witness ==
  /\ Did("integrate")
  /\ BelowEpsilon(NumAbs(Theta))
  /\ Theta # Zero
  /\ NumSign(Displacement) < 0
  /\ NumSign(i0.pose.translation.x) < 0

\* ---- C10
\* C10: to_odometry(V) and Odometry::from(V) are the same increment, with
\* s = |V.v| and a = |V.w|.
C10_EntryPointsAgree ==
  Did("from") => (i1 = i2 /\ i1.s = NumAbs(V.v) /\ i1.a = NumAbs(V.w))

\* C10 witness: a reverse right turn along an arc, through both entry points.
C10_Witness ==
  /\ Did("from")
  /\ ~BelowEpsilon(NumAbs(V.w))
  /\ NumSign(V.w) < 0
  /\ NumSign(V.v) < 0
  /\ i2.pose.translation.y # Zero
  /\ i1 = i2

=============================================================================
